---- MODULE Spec2Model ----
(***************************************************************************)
(* Journalctl Trace Analyzer (src/app.py): the line filter with context    *)
(* windows, the character chunker, and the two-pass analysis run of the    *)
(* Streamlit script.                                                       *)
(*                                                                         *)
(* Text is a sequence of one-character strings, so that lengths, slices,   *)
(* trimming and splitting are computed character by character.  Line and   *)
(* chunk indices are kept 0-based as in the source; a sequence position is *)
(* the index plus one.                                                     *)
(***************************************************************************)
EXTENDS Integers, Sequences, FiniteSets, TLC

VARIABLES
    pc,                 \* position of the script run / of the function call
    arg,                \* arguments of the function under call (function specs)
    ret,                \* its return value
    keep,               \* local `keep` of filter_lines_with_context at return
    uploaded,           \* text of the uploaded file, or None
    api_key,            \* resolved key (line 186)
    raw_services,       \* sidebar text input TARGET_SERVICES
    target_services,    \* parse_target_services(raw_services)
    context,            \* sidebar slider
    max_filtered_lines, \* sidebar number input
    chunk_size,         \* sidebar number input
    lines,              \* text.splitlines()
    filtered_lines,
    hits,
    filtered_text,
    chunks,
    chunk_outputs,
    calls,              \* external analysis calls made so far, in order
    status,             \* content of the status placeholder
    messages,           \* st.info / st.error / st.warning shown so far
    preview,            \* content of the "Filtered preview" code block
    idx,                \* loop variable of pass 1 (0 before the loop)
    final_report,
    tabs,               \* what the result tabs render, or None
    exception           \* uncaught exception shown by the script runner, or None

vars == <<pc, arg, ret, keep, uploaded, api_key, raw_services, target_services,
          context, max_filtered_lines, chunk_size, lines, filtered_lines, hits,
          filtered_text, chunks, chunk_outputs, calls, status, messages,
          preview, idx, final_report, tabs, exception>>

\* Python's None where a text or a list is expected (no text has this form).
None == <<"None">>
\* A call that raised has no output_text.
Raised == <<"raised">>
NoArg == [fn |-> "none"]
NoStatus == [pass |-> "none", chunk |-> 0, of |-> 0]
NoTabs == [rendered |-> FALSE]
NoException == [raised_in |-> "none"]

(***************************************************************************)
(* Bounds of the model.                                                    *)
(***************************************************************************)
MaxLines == 4       \* lines of an input text (function specifications)
MaxContext == 2     \* largest context radius
MaxCap == 3         \* largest max_lines
MaxChunk == 3       \* largest chunk_size
MaxText == 4        \* characters of a text handed to chunk_text_by_chars
MaxRunLines == 3    \* lines of an uploaded file (script run)
MaxRunContext == 1  \* largest context radius (script run)
MaxRunCap == 3      \* largest max_filtered_lines (script run)

Max(a, b) == IF a >= b THEN a ELSE b
Min(a, b) == IF a <= b THEN a ELSE b

(***************************************************************************)
(* Python string primitives.                                               *)
(***************************************************************************)
UpperChars == <<"A", "B", "C", "X", "Y">>
LowerChars == <<"a", "b", "c", "x", "y">>

\* re.IGNORECASE compares characters up to case.
Lower(c) ==
    IF \E k \in 1..Len(UpperChars) : UpperChars[k] = c
    THEN LowerChars[CHOOSE k \in 1..Len(UpperChars) : UpperChars[k] = c]
    ELSE c

RECURSIVE LStripChars(_, _)
LStripChars(s, drop) ==
    IF s # <<>> /\ Head(s) \in drop THEN LStripChars(Tail(s), drop) ELSE s

RECURSIVE RStripChars(_, _)
RStripChars(s, drop) ==
    IF s # <<>> /\ s[Len(s)] \in drop
    THEN RStripChars(SubSeq(s, 1, Len(s) - 1), drop)
    ELSE s

\* str.isspace for the characters of the model.
WhiteSpace == {" ", "\t", "\n", "\r", "\f"}

\* str.strip()
Strip(s) == RStripChars(LStripChars(s, WhiteSpace), WhiteSpace)

\* line.rstrip("\n")
RStripNewline(s) == RStripChars(s, {"\n"})

\* sep.join(parts)
RECURSIVE Join(_, _)
Join(parts, sep) ==
    IF parts = <<>> THEN <<>>
    ELSE IF Len(parts) = 1 THEN parts[1]
    ELSE parts[1] \o sep \o Join(Tail(parts), sep)

\* str.splitlines(): breaks at "\n", "\r", "\r\n" and "\f"; no empty last line.
RECURSIVE SplitLinesFrom(_, _, _)
SplitLinesFrom(s, cur, acc) ==
    IF s = <<>> THEN (IF cur = <<>> THEN acc ELSE Append(acc, cur))
    ELSE IF Head(s) = "\r" /\ Len(s) >= 2 /\ s[2] = "\n"
         THEN SplitLinesFrom(Tail(Tail(s)), <<>>, Append(acc, cur))
    ELSE IF Head(s) \in {"\n", "\r", "\f"}
         THEN SplitLinesFrom(Tail(s), <<>>, Append(acc, cur))
    ELSE SplitLinesFrom(Tail(s), Append(cur, Head(s)), acc)

splitlines(s) == SplitLinesFrom(s, <<>>, <<>>)

\* str.split(","): always at least one part.
RECURSIVE SplitCommaFrom(_, _, _)
SplitCommaFrom(s, cur, acc) ==
    IF s = <<>> THEN Append(acc, cur)
    ELSE IF Head(s) = "," THEN SplitCommaFrom(Tail(s), <<>>, Append(acc, cur))
    ELSE SplitCommaFrom(Tail(s), Append(cur, Head(s)), acc)

RECURSIVE DropEmpty(_)
DropEmpty(parts) ==
    IF parts = <<>> THEN <<>>
    ELSE IF Head(parts) = <<>> THEN DropEmpty(Tail(parts))
    ELSE <<Head(parts)>> \o DropEmpty(Tail(parts))

parse_target_services(raw) ==
    LET split == SplitCommaFrom(raw, <<>>, <<>>)
        parts == [k \in 1..Len(split) |-> Strip(split[k])]
    IN  DropEmpty(parts)

(***************************************************************************)
(* filter_lines_with_context                                               *)
(***************************************************************************)
\* re.compile(re.escape(svc), re.IGNORECASE).search(line): the token occurs
\* in the line as a literal substring, compared up to case.
PatternSearch(svc, line) ==
    \E off \in 0..(Len(line) - Len(svc)) :
        \A k \in 1..Len(svc) : Lower(line[off + k]) = Lower(svc[k])

\* any(p.search(line) for p in patterns)
AnyPatternMatches(svcs, line) ==
    \E p \in 1..Len(svcs) : PatternSearch(svcs[p], line)

\* for i, line in enumerate(lines): ... hit_idxs.append(i)
RECURSIVE HitLoop(_, _, _, _)
HitLoop(ls, svcs, i, hit_idxs) ==
    IF i >= Len(ls) THEN hit_idxs
    ELSE HitLoop(ls, svcs, i + 1,
                 IF AnyPatternMatches(svcs, ls[i + 1])
                 THEN Append(hit_idxs, i) ELSE hit_idxs)

\* start = max(0, i - context)
WindowStart(i, ctx) == Max(0, i - ctx)

\* end = min(len(lines) - 1, i + context)
WindowEnd_exclusive(n, i, ctx) == Min(n - 1, i + ctx) - 1
WindowEnd(n, i, ctx) == Min(n - 1, i + ctx)

\* for i in hit_idxs: for j in range(start, end + 1): keep.add(j)
RECURSIVE KeepLoop(_, _, _, _)
KeepLoop(hit_idxs, n, ctx, acc) ==
    IF hit_idxs = <<>> THEN acc
    ELSE KeepLoop(Tail(hit_idxs), n, ctx,
                  acc \cup (WindowStart(Head(hit_idxs), ctx)
                            .. WindowEnd(n, Head(hit_idxs), ctx)))

\* sorted(keep)
RECURSIVE SortedDescending(_)
SortedDescending(S) ==
    IF S = {} THEN <<>>
    ELSE LET m == CHOOSE x \in S : \A y \in S : x >= y
         IN  <<m>> \o SortedDescending(S \ {m})

RECURSIVE Sorted(_)
Sorted(S) ==
    IF S = {} THEN <<>>
    ELSE LET m == CHOOSE x \in S : \A y \in S : x <= y
         IN  <<m>> \o Sorted(S \ {m})

\* seq[:m], m of either sign
SliceTo(s, m) ==
    IF m >= 0 THEN SubSeq(s, 1, Min(m, Len(s)))
    ELSE SubSeq(s, 1, Max(0, Len(s) + m))

\* seq[-m:] for m > 0
SliceLast(s, m) == SubSeq(s, Max(1, Len(s) - m + 1), Len(s))

\* if max_lines and len(filtered) > max_lines: filtered = filtered[:max_lines]
SafetyCap_tail(filtered, max_lines) ==
    IF max_lines # 0 /\ Len(filtered) > max_lines
    THEN SliceLast(filtered, max_lines)
    ELSE filtered
SafetyCap(filtered, max_lines) ==
    IF max_lines # 0 /\ Len(filtered) > max_lines
    THEN SliceTo(filtered, max_lines)
    ELSE filtered

\* The locals of one call with a non-empty token list.
FilterHitIdxs(ls, svcs) == HitLoop(ls, svcs, 0, <<>>)
FilterKeep(ls, svcs, ctx) == KeepLoop(FilterHitIdxs(ls, svcs), Len(ls), ctx, {})

\* filtered = [lines[i].rstrip("\n") for i in kept_sorted], then the cap
FilteredOf(ls, svcs, ctx, max_lines) ==
    LET kept_sorted == Sorted(FilterKeep(ls, svcs, ctx))
        filtered == [k \in 1..Len(kept_sorted) |->
                        RStripNewline(ls[kept_sorted[k] + 1])]
    IN  SafetyCap(filtered, max_lines)

\* Returns <<filtered, number of hits>>.
filter_lines_with_context_countReturned(ls, svcs, ctx, max_lines) ==
    IF svcs = <<>> THEN << <<>>, 0 >>
    ELSE LET filtered == FilteredOf(ls, svcs, ctx, max_lines)
             returned == {k \in 1..Len(filtered) :
                             AnyPatternMatches(svcs, filtered[k])}
         IN  <<filtered, Cardinality(returned)>>
filter_lines_with_context(ls, svcs, ctx, max_lines) ==
    IF svcs = <<>> THEN << <<>>, 0 >>
    ELSE <<FilteredOf(ls, svcs, ctx, max_lines), Len(FilterHitIdxs(ls, svcs))>>

(***************************************************************************)
(* chunk_text_by_chars                                                     *)
(***************************************************************************)
\* [text[i : i + chunk_size] for i in range(0, len(text), chunk_size)]
RECURSIVE ChunkFrom_overlap(_, _, _)
ChunkFrom_overlap(text, i, size) ==
    IF i >= Len(text) THEN <<>>
    ELSE <<SubSeq(text, i + 1, Min(Len(text), i + size + 1))>>
         \o ChunkFrom_overlap(text, i + size, size)

RECURSIVE ChunkFrom(_, _, _)
ChunkFrom(text, i, size) ==
    IF i >= Len(text) THEN <<>>
    ELSE <<SubSeq(text, i + 1, Min(Len(text), i + size))>>
         \o ChunkFrom(text, i + size, size)

chunk_text_by_chars_sizeFirst(text, size) ==
    LET t == Strip(text)
    IN  IF size <= 0 THEN <<t>>
        ELSE IF t = <<>> THEN <<>>
        ELSE ChunkFrom(t, 0, size)
chunk_text_by_chars(text, size) ==
    LET t == Strip(text)
    IN  IF t = <<>> THEN <<>>
        ELSE IF size <= 0 THEN <<t>>
        ELSE ChunkFrom(t, 0, size)

(***************************************************************************)
(* Inputs of the function specifications.                                  *)
(***************************************************************************)
SeqsUpTo(S, n) == UNION {[1..k -> S] : k \in 0..n}

NewLine == <<"\n">>

\* Lines of the log texts: empty, a hit in either case, a non-hit.
LineSet == {<<>>, <<"a">>, <<"A", "b">>, <<"b">>}

\* Contents of the TARGET_SERVICES text input.
RawServiceSet ==
    {<<>>, <<"a">>, <<"B">>, <<" ", "a", ",", ",", "b">>, <<"x">>}

ChunkAlphabet == {"a", "b", " ", "\n"}

\* The script's variables while only a function is exercised.
RunIdle ==
    /\ uploaded = None /\ api_key = <<>> /\ raw_services = <<>>
    /\ target_services = <<>> /\ context = 0 /\ max_filtered_lines = 1
    /\ chunk_size = 1 /\ lines = <<>> /\ filtered_lines = <<>> /\ hits = 0
    /\ filtered_text = <<>> /\ chunks = None /\ chunk_outputs = <<>>
    /\ calls = <<>> /\ status = NoStatus /\ messages = <<>> /\ preview = None
    /\ idx = 0
    /\ final_report = None /\ tabs = NoTabs /\ exception = NoException

runVars == <<uploaded, api_key, raw_services, target_services, context,
             max_filtered_lines, chunk_size, lines, filtered_lines, hits,
             filtered_text, chunks, chunk_outputs, calls, status, messages,
             preview, idx, final_report, tabs, exception>>

(***************************************************************************)
(* Specification of filter_lines_with_context: the lines of a text, the    *)
(* tokens parsed from a sidebar input, a radius and a cap.                 *)
(***************************************************************************)
InitFilter ==
    /\ pc = "call_filter"
    /\ \E ls \in SeqsUpTo(LineSet, MaxLines), raw \in RawServiceSet,
          ctx \in 0..MaxContext, cap \in 0..MaxCap :
          arg = [lines |-> splitlines(Join(ls, NewLine)),
                 target_services |-> parse_target_services(raw),
                 context |-> ctx, max_lines |-> cap]
    /\ ret = None
    /\ keep = {}
    /\ RunIdle

CallFilter ==
    /\ pc = "call_filter"
    /\ ret' = filter_lines_with_context(arg.lines, arg.target_services,
                                        arg.context, arg.max_lines)
    /\ keep' = IF arg.target_services = <<>> THEN {}
               ELSE FilterKeep(arg.lines, arg.target_services, arg.context)
    /\ pc' = "ret_filter"
    /\ UNCHANGED <<arg, runVars>>

NextFilter == CallFilter

SpecFilter == InitFilter /\ [][NextFilter]_vars

(***************************************************************************)
(* Specification of chunk_text_by_chars.                                   *)
(***************************************************************************)
InitChunk ==
    /\ pc = "call_chunk"
    /\ \E t \in SeqsUpTo(ChunkAlphabet, MaxText), size \in -1..MaxChunk :
          arg = [text |-> t, chunk_size |-> size]
    /\ ret = None
    /\ keep = {}
    /\ RunIdle

CallChunk ==
    /\ pc = "call_chunk"
    /\ ret' = chunk_text_by_chars(arg.text, arg.chunk_size)
    /\ pc' = "ret_chunk"
    /\ UNCHANGED <<arg, keep, runVars>>

NextChunk == CallChunk

SpecChunk == InitChunk /\ [][NextChunk]_vars

(***************************************************************************)
(* Prompt construction.                                                    *)
(***************************************************************************)
DigitChars == <<"0", "1", "2", "3", "4", "5", "6", "7", "8", "9">>

\* str(n) for n >= 0
RECURSIVE IntToStr(_)
IntToStr(n) ==
    IF n < 10 THEN <<DigitChars[n + 1]>>
    ELSE IntToStr(n \div 10) \o <<DigitChars[(n % 10) + 1]>>

\* str(list of str), as "{target_services}" is formatted: ['a', 'b']
ListRepr(svcs) ==
    <<"[">> \o Join([k \in 1..Len(svcs) |-> <<"'">> \o svcs[k] \o <<"'">>],
                    <<",", " ">>) \o <<"]">>

Lit(chars) == [field |-> "", lit |-> chars]
Field(name) == [field |-> name, lit |-> <<>>]

\* The literal text of the templates is abridged to its markers; the
\* placeholders and their order are those of the source.
DEFAULT_PROMPT_TEMPLATE ==
    << Lit(<<"T", "S", "=">>), Field("target_services"),
       Lit(<<"\n", "L", "O", "G", ":", "\n">>), Field("log_text"),
       Lit(<<"\n">>) >>

SYNTHESIS_PROMPT ==
    << Lit(<<"T", "S", "=">>), Field("target_services"),
       Lit(<<"\n", "C", "A", ":", "\n">>), Field("chunk_analyses"),
       Lit(<<"\n">>) >>

\* template.format(**fields)
RECURSIVE Format(_, _)
Format(template, fields) ==
    IF template = <<>> THEN <<>>
    ELSE (IF Head(template).field = "" THEN Head(template).lit
          ELSE fields[Head(template).field])
         \o Format(Tail(template), fields)

\* prompt_template.format(target_services=target_services, log_text=chunk)
Pass1Prompt(template, svcs, chunk) ==
    Format(template, [target_services |-> ListRepr(svcs), log_text |-> chunk])

\* f"Chunk {i+1} analysis:\n{chunk_outputs[i]}"
ChunkEntry_zeroBased(i, outputs) ==
    <<"C", "h", "u", "n", "k", " ">> \o IntToStr(i)
    \o <<" ", "a", "n", "a", "l", "y", "s", "i", "s", ":", "\n">>
    \o outputs[i + 1]
ChunkEntry(i, outputs) ==
    <<"C", "h", "u", "n", "k", " ">> \o IntToStr(i + 1)
    \o <<" ", "a", "n", "a", "l", "y", "s", "i", "s", ":", "\n">>
    \o outputs[i + 1]

\* "\n\n---\n\n".join(... for i in range(len(chunk_outputs)))
Joined(outputs) ==
    Join([k \in 1..Len(outputs) |-> ChunkEntry(k - 1, outputs)],
         <<"\n", "\n", "-", "-", "-", "\n", "\n">>)

SynthPrompt(svcs, outputs) ==
    Format(SYNTHESIS_PROMPT, [target_services |-> ListRepr(svcs),
                              chunk_analyses |-> Joined(outputs)])

\* resp.output_text or ""
OutputTextOrEmpty(output_text) == IF output_text = None THEN <<>> ELSE output_text

\* x if x else "(empty)"
OrEmptyMark(x) == IF x # <<>> THEN x ELSE <<"(", "e", "m", "p", "t", "y", ")">>

(***************************************************************************)
(* The script run.                                                         *)
(***************************************************************************)
\* Lines of an uploaded file: a hit, a non-hit, a blank line.
RunLineSet == {<<"a">>, <<"b">>, <<" ">>}

RunRawServiceSet == {<<>>, <<"A">>, <<"a", ",", " ", "b">>, <<"x">>}

UiKeySet == {<<>>, <<" ">>, <<"u">>}
EnvKeySet == {<<>>, <<"e">>}

\* resp.output_text of a call that returns: absent, plain, padded.
OutputTexts == {None, <<"X">>, <<" ", "Y", "\n">>}

PreviewLines == 200

\* filtered_text = "\n".join(filtered_lines).strip()
FilteredText_noStrip(fl) == Join(fl, NewLine)
FilteredText(fl) == Strip(Join(fl, NewLine))

\* for idx, chunk in enumerate(chunks, start=1): another iteration follows
LoopHasNext_skipLast(i, cs) == i < Len(cs) - 1
LoopHasNext(i, cs) == i < Len(cs)

\* Lines 181-205: the sidebar widgets and the uploader.  The number inputs
\* have positive minimums in the source (100 lines, 2000 characters); here
\* they start at 1 line and 2 characters, in proportion to the short texts.
Init ==
    /\ pc = "start"
    /\ arg = NoArg /\ ret = None /\ keep = {}
    /\ \E ui_key \in UiKeySet, env_key \in EnvKeySet :
          api_key = IF Strip(ui_key) # <<>> THEN Strip(ui_key) ELSE Strip(env_key)
    /\ raw_services \in RunRawServiceSet
    /\ target_services = parse_target_services(raw_services)
    /\ context \in 0..MaxRunContext
    /\ max_filtered_lines \in 1..MaxRunCap
    /\ chunk_size \in 2..MaxChunk
    /\ uploaded \in {None} \cup
                    {Join(ls, NewLine) : ls \in SeqsUpTo(RunLineSet, MaxRunLines)}
    /\ lines = <<>> /\ filtered_lines = <<>> /\ hits = 0
    /\ filtered_text = <<>> /\ chunks = None /\ chunk_outputs = <<>>
    /\ calls = <<>> /\ status = NoStatus /\ messages = <<>> /\ preview = None
    /\ idx = 0 /\ final_report = None /\ tabs = NoTabs /\ exception = NoException

\* Lines 205-208: nothing uploaded.
NoUpload ==
    /\ pc = "start"
    /\ uploaded = None
    /\ messages' = Append(messages, [level |-> "info",
                                     text |-> "Upload a journalctl file to begin."])
    /\ pc' = "halted"
    /\ UNCHANGED <<arg, ret, keep, uploaded, api_key, raw_services,
                   target_services, context, max_filtered_lines, chunk_size,
                   lines, filtered_lines, hits, filtered_text, chunks,
                   chunk_outputs, calls, status, preview, idx, final_report,
                   tabs, exception>>

\* Lines 210-250: split, filter, preview, then the key and token guards; the
\* run then stops at the Analyze button until it is clicked.
LoadAndFilter ==
    /\ pc = "start"
    /\ uploaded # None
    /\ LET ls == splitlines(uploaded)
           r == filter_lines_with_context(ls, target_services, context,
                                          max_filtered_lines)
           pv == Join(SliceTo(r[1], PreviewLines), NewLine)
       IN  /\ lines' = ls
           /\ filtered_lines' = r[1]
           /\ hits' = r[2]
           /\ preview' = IF pv # <<>> THEN pv ELSE <<"(no matching lines found)">>
    /\ IF api_key = <<>>
       THEN /\ messages' = Append(messages, [level |-> "error",
                                             text |-> "No OpenAI API key found."])
            /\ pc' = "halted"
       ELSE IF target_services = <<>>
       THEN /\ messages' = Append(messages,
                   [level |-> "error",
                    text |-> "Please provide at least one target service."])
            /\ pc' = "halted"
       ELSE /\ messages' = messages
            /\ pc' = "await_analyze"
    /\ UNCHANGED <<arg, ret, keep, uploaded, api_key, raw_services,
                   target_services, context, max_filtered_lines, chunk_size,
                   filtered_text, chunks, chunk_outputs, calls, status, idx,
                   final_report, tabs, exception>>

\* Lines 248-268: Analyze clicked; the rerun recomputes the same values and
\* goes on to the empty-text guard and the chunking.
Analyze ==
    /\ pc = "await_analyze"
    /\ filtered_text' = FilteredText(filtered_lines)
    /\ IF filtered_text' = <<>>
       THEN /\ messages' = Append(messages,
                   [level |-> "warning",
                    text |-> "No relevant lines were found."])
            /\ pc' = "halted"
            /\ UNCHANGED <<chunks, chunk_outputs>>
       ELSE /\ chunks' = chunk_text_by_chars(filtered_text', chunk_size)
            /\ chunk_outputs' = <<>>
            /\ pc' = "pass1"
            /\ UNCHANGED messages
    /\ UNCHANGED <<arg, ret, keep, uploaded, api_key, raw_services,
                   target_services, context, max_filtered_lines, chunk_size,
                   lines, filtered_lines, hits, calls, status, preview, idx,
                   final_report, tabs, exception>>

Pass1Status(i, n) == [pass |-> "Pass 1/2", chunk |-> i, of |-> n]
Pass2Status == [pass |-> "Pass 2/2", chunk |-> 0, of |-> 0]
DoneStatus == [pass |-> "Done", chunk |-> 0, of |-> 0]

\* Lines 271-279: one iteration of pass 1 whose call returns.
Pass1Call ==
    /\ pc = "pass1"
    /\ LoopHasNext(idx, chunks)
    /\ idx' = idx + 1
    /\ status' = Pass1Status(idx', Len(chunks))
    /\ \E output_text \in OutputTexts :
         /\ calls' = Append(calls,
                [pass |-> "PASS1", chunk |-> idx',
                 prompt |-> Pass1Prompt(DEFAULT_PROMPT_TEMPLATE, target_services,
                                        chunks[idx']),
                 output_text |-> output_text])
         /\ chunk_outputs' = Append(chunk_outputs,
                                    Strip(OutputTextOrEmpty(output_text)))
    /\ UNCHANGED <<pc, arg, ret, keep, uploaded, api_key, raw_services,
                   target_services, context, max_filtered_lines, chunk_size,
                   lines, filtered_lines, hits, filtered_text, chunks, messages,
                   preview, final_report, tabs, exception>>

\* Lines 271-277: the call of an iteration raises; nothing catches it, the
\* script run ends and the runner shows the exception.
Pass1CallRaises ==
    /\ pc = "pass1"
    /\ LoopHasNext(idx, chunks)
    /\ idx' = idx + 1
    /\ status' = Pass1Status(idx', Len(chunks))
    /\ calls' = Append(calls,
           [pass |-> "PASS1", chunk |-> idx',
            prompt |-> Pass1Prompt(DEFAULT_PROMPT_TEMPLATE, target_services,
                                   chunks[idx']),
            output_text |-> Raised])
    /\ exception' = [raised_in |-> "call_openai_responses"]
    /\ pc' = "error"
    /\ UNCHANGED <<arg, ret, keep, uploaded, api_key, raw_services,
                   target_services, context, max_filtered_lines, chunk_size,
                   lines, filtered_lines, hits, filtered_text, chunks,
                   chunk_outputs, messages, preview, final_report, tabs>>

\* Lines 281-317: the synthesis call returns and the tabs are rendered.
Pass2Call ==
    /\ pc = "pass1"
    /\ ~LoopHasNext(idx, chunks)
    /\ \E output_text \in OutputTexts :
         /\ calls' = Append(calls,
                [pass |-> "PASS2", chunk |-> 0,
                 prompt |-> SynthPrompt(target_services, chunk_outputs),
                 output_text |-> output_text])
         /\ final_report' = Strip(OutputTextOrEmpty(output_text))
    /\ status' = DoneStatus
    /\ tabs' = [rendered |-> TRUE,
                final_report |-> OrEmptyMark(final_report'),
                chunk_analyses |-> [k \in 1..Len(chunk_outputs) |->
                                       OrEmptyMark(chunk_outputs[k])],
                download |-> <<"#", "\n", "-", " ">>
                             \o Join(target_services, <<"\n", "-", " ">>)
                             \o <<"\n", "\n", "-", "-", "-", "\n", "\n">>
                             \o final_report']
    /\ pc' = "done"
    /\ UNCHANGED <<arg, ret, keep, uploaded, api_key, raw_services,
                   target_services, context, max_filtered_lines, chunk_size,
                   lines, filtered_lines, hits, filtered_text, chunks,
                   chunk_outputs, messages, preview, idx, exception>>

\* Lines 281-291: the synthesis call raises.
Pass2CallRaises ==
    /\ pc = "pass1"
    /\ ~LoopHasNext(idx, chunks)
    /\ status' = Pass2Status
    /\ calls' = Append(calls,
           [pass |-> "PASS2", chunk |-> 0,
            prompt |-> SynthPrompt(target_services, chunk_outputs),
            output_text |-> Raised])
    /\ exception' = [raised_in |-> "call_openai_responses"]
    /\ pc' = "error"
    /\ UNCHANGED <<arg, ret, keep, uploaded, api_key, raw_services,
                   target_services, context, max_filtered_lines, chunk_size,
                   lines, filtered_lines, hits, filtered_text, chunks,
                   chunk_outputs, messages, preview, idx, final_report, tabs>>

Next ==
    \/ NoUpload
    \/ LoadAndFilter
    \/ Analyze
    \/ Pass1Call
    \/ Pass1CallRaises
    \/ Pass2Call
    \/ Pass2CallRaises

Spec == Init /\ [][Next]_vars

(***************************************************************************)
(* Properties of filter_lines_with_context, checked under SpecFilter.      *)
(***************************************************************************)
Returned == pc = "ret_filter"

\* The line contains the token as a literal substring, up to case.
ContainsToken(line, tok) ==
    LET low(t) == [k \in 1..Len(t) |-> Lower(t[k])]
    IN  \E from \in 1..(Len(line) + 1) :
            /\ from + Len(tok) - 1 <= Len(line)
            /\ SubSeq(low(line), from, from + Len(tok) - 1) = low(tok)

\* Hit Index Set: the indices of the lines that contain at least one token.
HitSet(ls, toks) ==
    {i \in 0..(Len(ls) - 1) : \E t \in 1..Len(toks) : ContainsToken(ls[i + 1], toks[t])}

\* The k-th smallest element of a set of integers.
Kth(S, k) == CHOOSE x \in S : Cardinality({y \in S : y < x}) = k - 1

\* The lines at the indices of K, in ascending index order.
LinesAt(ls, K) == [k \in 1..Cardinality(K) |-> ls[Kth(K, k) + 1]]

\* C1: with a non-empty token list, the Keep Index Set before the cap is
\* exactly the union of the windows [max(0,h-r), min(n-1,h+r)] of the hit
\* indices h: every index of every window is kept, every kept index lies in
\* some window, and every kept index lies in [0, n-1].
C1_KeepIsUnionOfWindows ==
    (Returned /\ arg.target_services # <<>>) =>
        LET n == Len(arg.lines)
            r == arg.context
            H == HitSet(arg.lines, arg.target_services)
            lo(h) == IF h - r > 0 THEN h - r ELSE 0
            hi(h) == IF h + r < n - 1 THEN h + r ELSE n - 1
        IN  /\ \A h \in H : \A j \in lo(h)..hi(h) : j \in keep
            /\ \A j \in keep : \E h \in H : lo(h) <= j /\ j <= hi(h)
            /\ keep \subseteq 0..(n - 1)

\* Two hits with overlapping windows, one clamped at index 0, and a line
\* that no window reaches.
C1_Witness ==
    /\ Returned
    /\ arg.context >= 1
    /\ LET H == HitSet(arg.lines, arg.target_services)
       IN  /\ 0 \in H
           /\ \E h \in H : h # 0 /\ h - arg.context <= arg.context
    /\ keep # 0..(Len(arg.lines) - 1)
    /\ keep # {}

\* C2: the returned lines are the original lines at strictly increasing
\* kept indices, each index used once, truncated or not.
C2_MonotonicSubsequence ==
    Returned =>
        \E S \in SUBSET keep :
            /\ S \subseteq 0..(Len(arg.lines) - 1)
            /\ Cardinality(S) = Len(ret[1])
            /\ \A k \in 1..Len(ret[1]) : ret[1][k] = arg.lines[Kth(S, k) + 1]

\* Overlapping windows, and the cap cuts the result.
C2_Witness ==
    /\ Returned
    /\ arg.context >= 1
    /\ \E h1, h2 \in HitSet(arg.lines, arg.target_services) :
          h1 < h2 /\ h2 - h1 <= 2 * arg.context
    /\ Len(ret[1]) >= 2
    /\ Len(ret[1]) < Cardinality(keep)

\* The cap as the claim states it, for one max_output_lines.
CapHolds ==
    IF Cardinality(keep) > arg.max_lines
    THEN /\ Len(ret[1]) = arg.max_lines
         /\ ret[1] = SubSeq(LinesAt(arg.lines, keep), 1, arg.max_lines)
    ELSE ret[1] = LinesAt(arg.lines, keep)

\* C3 as stated: for every max_output_lines >= 0, 0 included, a Keep Set
\* larger than max_output_lines is cut to its first max_output_lines lines,
\* and a smaller one is returned whole.
C3_Original ==
    (Returned /\ arg.max_lines >= 0) => CapHolds

\* C3 amended: the same for every max_output_lines >= 1; with
\* max_output_lines = 0 the cap is off and the untruncated result is returned.
C3_TruncationSafeguard ==
    Returned =>
        /\ arg.max_lines >= 1 => CapHolds
        /\ arg.max_lines = 0 => ret[1] = LinesAt(arg.lines, keep)

\* The cap cuts a larger Keep Set.
C3_Witness ==
    /\ Returned
    /\ arg.max_lines >= 1
    /\ Cardinality(keep) > arg.max_lines
    /\ Len(ret[1]) = arg.max_lines

\* C4: the hit count is the number of lines that contain a token, whatever
\* the radius and the cap; with no token or no matching line the result is
\* the empty list and 0.
C4_HitCount ==
    Returned =>
        LET H == HitSet(arg.lines, arg.target_services)
        IN  /\ ret[2] = Cardinality(H)
            /\ (arg.target_services = <<>> \/ H = {}) => ret = << <<>>, 0 >>

\* The cap removed a hit line and the count still includes it.
C4_Witness ==
    /\ Returned
    /\ arg.context = 0
    /\ ret[2] > Len(ret[1])
    /\ Len(ret[1]) >= 1

(***************************************************************************)
(* Properties of chunk_text_by_chars, checked under SpecChunk.             *)
(***************************************************************************)
Chunked == pc = "ret_chunk"

\* The text without its leading and trailing whitespace.
Trimmed(text) ==
    LET ink == {k \in 1..Len(text) : text[k] \notin WhiteSpace}
    IN  IF ink = {} THEN <<>>
        ELSE SubSeq(text, CHOOSE a \in ink : \A b \in ink : a <= b,
                          CHOOSE a \in ink : \A b \in ink : a >= b)

\* C5: for a non-empty trimmed text T and chunk_size > 0 the chunks are a
\* non-empty list, every chunk but the last has exactly chunk_size
\* characters, the last has 1..chunk_size, and character p of T is character
\* p of the concatenation.
C5_ChunkRoundTrip ==
    (Chunked /\ Trimmed(arg.text) # <<>> /\ arg.chunk_size > 0) =>
        LET T == Trimmed(arg.text)
            size == arg.chunk_size
            n == Len(ret)
        IN  /\ n >= 1
            /\ \A k \in 1..(n - 1) : Len(ret[k]) = size
            /\ Len(ret[n]) >= 1 /\ Len(ret[n]) <= size
            /\ (n - 1) * size + Len(ret[n]) = Len(T)
            /\ \A p \in 1..Len(T) :
                  T[p] = ret[((p - 1) \div size) + 1][((p - 1) % size) + 1]

\* Several chunks, the last one shorter, from a text that needed trimming.
C5_Witness ==
    /\ Chunked
    /\ arg.chunk_size > 0
    /\ Len(ret) >= 2
    /\ Len(ret[Len(ret)]) < arg.chunk_size
    /\ Trimmed(arg.text) # arg.text

\* C6: an empty or whitespace-only text gives the empty list for any
\* chunk_size, also a non-positive one; a non-empty trimmed text T with
\* chunk_size <= 0 gives the one-element list [T].
C6_ChunkDisable ==
    Chunked =>
        /\ Trimmed(arg.text) = <<>> => ret = <<>>
        /\ (Trimmed(arg.text) # <<>> /\ arg.chunk_size <= 0) =>
               ret = <<Trimmed(arg.text)>>

\* A whitespace-only text with a non-positive chunk_size.
C6_Witness ==
    /\ Chunked
    /\ arg.chunk_size <= 0
    /\ arg.text # <<>>
    /\ Trimmed(arg.text) = <<>>
    /\ ret = <<>>

(***************************************************************************)
(* Properties of the script run, checked under Spec.                       *)
(***************************************************************************)
NumChunks == IF chunks = None THEN 0 ELSE Len(chunks)

\* C7: the external calls made so far are PASS1 calls for chunks 1, 2, ...
\* in that order, at most one per chunk, and a PASS2 call only as the call
\* after the n-th PASS1 call; a run that ends without a failing call has made
\* exactly n PASS1 calls followed by one PASS2 call.
C7_PassOrder ==
    /\ chunks = None => calls = <<>>
    /\ Len(calls) <= NumChunks + 1
    /\ \A k \in 1..Len(calls) :
          IF k <= NumChunks
          THEN calls[k].pass = "PASS1" /\ calls[k].chunk = k
          ELSE calls[k].pass = "PASS2"
    /\ pc = "done" =>
          /\ Len(calls) = NumChunks + 1
          /\ \A k \in 1..Len(calls) : calls[k].output_text # Raised

\* A run over several chunks that reached the report.
C7_Witness ==
    /\ pc = "done"
    /\ NumChunks >= 2
    /\ calls[Len(calls)].pass = "PASS2"

\* "Chunk 1 analysis:\n" r1 sep "Chunk 2 analysis:\n" r2 ... up to entry k.
RECURSIVE LabelledEntries(_, _)
LabelledEntries(results, k) ==
    IF k = 0 THEN <<>>
    ELSE LabelledEntries(results, k - 1)
         \o (IF k > 1 THEN <<"\n", "\n", "-", "-", "-", "\n", "\n">> ELSE <<>>)
         \o <<"C", "h", "u", "n", "k", " ", DigitChars[k + 1], " ",
              "a", "n", "a", "l", "y", "s", "i", "s", ":", "\n">>
         \o results[k]

\* C8: the i-th result is the trimmed output of the call made for the i-th
\* chunk; after pass 1 there is one result per chunk; the synthesis payload
\* is the results labelled Chunk 1 .. Chunk n in that order with one
\* separator between neighbours; the prompt of the i-th PASS1 call is the
\* template filled with the target tokens and the i-th chunk only.
C8_ResultsInChunkOrder ==
    /\ \A i \in 1..Len(chunk_outputs) :
          /\ calls[i].chunk = i
          /\ chunk_outputs[i] =
                Trimmed(IF calls[i].output_text = None THEN <<>>
                        ELSE calls[i].output_text)
    /\ \A k \in 1..Len(calls) :
          IF calls[k].pass = "PASS1"
          THEN calls[k].prompt =
                  Format(DEFAULT_PROMPT_TEMPLATE,
                         [target_services |-> ListRepr(target_services),
                          log_text |-> chunks[calls[k].chunk]])
          ELSE /\ Len(chunk_outputs) = Len(chunks)
               /\ calls[k].prompt =
                     Format(SYNTHESIS_PROMPT,
                            [target_services |-> ListRepr(target_services),
                             chunk_analyses |->
                                 LabelledEntries(chunk_outputs, Len(chunks))])

\* Three chunks whose results differ, one of them trimmed, synthesised.
C8_Witness ==
    /\ pc = "done"
    /\ NumChunks >= 3
    /\ chunk_outputs[1] # chunk_outputs[2]
    /\ \E i \in 1..Len(chunk_outputs) : chunk_outputs[i] # calls[i].output_text

\* Every character of every filtered line is whitespace (or there is none):
\* the filtered text is empty.
NoRelevantText ==
    \A k \in 1..Len(filtered_lines) :
        \A c \in 1..Len(filtered_lines[k]) : filtered_lines[k][c] \in WhiteSpace

AnalysisNotStarted ==
    /\ calls = <<>>
    /\ chunks = None
    /\ final_report = None
    /\ tabs = NoTabs
    /\ pc \in {"start", "await_analyze", "halted"}

HasMessage(level) == \E m \in 1..Len(messages) : messages[m].level = level

\* C9: with an empty token list, without an API key, or with an empty
\* filtered text, no chunking is done and no external call is made; the run
\* halts with a message to the operator and without a report.
C9_GuardsBeforeAnalysis ==
    /\ (target_services = <<>> \/ api_key = <<>>) =>
          /\ AnalysisNotStarted
          /\ pc # "await_analyze"
          /\ pc = "halted" => messages # <<>>
          /\ (pc = "halted" /\ uploaded # None) => HasMessage("error")
    /\ (pc # "start" /\ uploaded # None /\ NoRelevantText) =>
          /\ AnalysisNotStarted
          /\ pc = "halted" => messages # <<>>
          /\ (pc = "halted" /\ target_services # <<>> /\ api_key # <<>>) =>
                HasMessage("warning")

\* Key and tokens present, lines kept by the filter, yet no text in them:
\* the run halted on the empty-text guard.
C9_Witness ==
    /\ pc = "halted"
    /\ api_key # <<>>
    /\ target_services # <<>>
    /\ filtered_lines # <<>>
    /\ NoRelevantText
    /\ HasMessage("warning")
    /\ calls = <<>> /\ chunks = None

\* What is on screen names the pass, and for pass 1 the chunk, of the call.
OperatorSeesStage(call) ==
    /\ exception # NoException
    /\ IF call.pass = "PASS1"
       THEN status.pass = "Pass 1/2" /\ status.chunk = call.chunk
       ELSE status.pass = "Pass 2/2"

\* C10: when a call fails the run ends in an error outcome that names the
\* failed pass (and chunk); the failed call is the last call, no report is
\* produced, and the results collected for the chunks before it are shown
\* unchanged for inspection.
C10_FailureReported ==
    pc = "error" =>
        /\ calls[Len(calls)].output_text = Raised
        /\ OperatorSeesStage(calls[Len(calls)])
        /\ final_report = None
        /\ (calls[Len(calls)].pass = "PASS1" /\ chunk_outputs # <<>>) =>
              /\ tabs.rendered
              /\ Len(tabs.chunk_analyses) = Len(chunk_outputs)
              /\ \A i \in 1..Len(chunk_outputs) :
                    tabs.chunk_analyses[i] = OrEmptyMark(chunk_outputs[i])

====
